---- MODULE Spec2Model ----
(***************************************************************************)
(* Image description and keyword generator.                                *)
(*                                                                         *)
(*   src/src/pages/index.tsx   client controller "Home": a selection       *)
(*                             replaces the image list; Generate makes one *)
(*                             awaited round trip per image                *)
(*   src/src/pages/Index.jsx   client controller "Index": a selection is   *)
(*                             appended; Generate writes placeholders      *)
(*   src/unnamed/part_000      proxy endpoint "handler" (/api/generate)    *)
(*                                                                         *)
(* One JavaScript task (an event handler, or the continuation of an        *)
(* async function from one await to the next) is one action.  Every state  *)
(* update made from an event handler is rendered before the next event is  *)
(* dispatched, so a handler's closure reads the state as it is when the    *)
(* handler starts.                                                         *)
(***************************************************************************)
EXTENDS Naturals, Sequences, FiniteSets

\* ------------------------------------------------------------ constants
MAX_IMAGES == 5

\* Model bounds: blob URLs ever created, Generate runs alive at once, images of
\* one run of the round-trip loop, clients of the route other than the page.
MaxUrls == 6
MaxRuns == 2
MaxBatch == 2
MaxExternal == 2
\* The tokens, line breaks included, of a response text under test.
MaxTextLen == 4

Variants == {"tsx", "jsx"}
RunIds == 1..MaxRuns
\* A request's origin: a run of the page, or another client of the route.
ExternalIds == {MaxRuns + i : i \in 1..MaxExternal}
Origins == RunIds \cup ExternalIds

\* ------------------------------------------------------------ sequences
Range(s) == {s[i] : i \in DOMAIN s}

\* Array.prototype.filter((_, i) => i !== index), index counted from 1 here.
RECURSIVE FilterOut(_, _)
FilterOut(s, index) ==
  IF s = <<>> THEN <<>>
  ELSE IF index = 1 THEN FilterOut(Tail(s), 0)
  ELSE <<Head(s)>> \o FilterOut(Tail(s), IF index = 0 THEN 0 ELSE index - 1)

\* ------------------------------------------------------------ response text
\* A text is a sequence of lines, a line a sequence of tokens; the three
\* markers, the comma, the blank and the digits are tokens of their own.
Digits == {"0", "1", "2", "3", "4", "5", "6", "7", "8", "9"}
DigitVal(d) ==
  CASE d = "0" -> 0 [] d = "1" -> 1 [] d = "2" -> 2 [] d = "3" -> 3
    [] d = "4" -> 4 [] d = "5" -> 5 [] d = "6" -> 6 [] d = "7" -> 7
    [] d = "8" -> 8 [] d = "9" -> 9

\* String.prototype.trim.  (TrimStart is the variant that trims the head alone.)
RECURSIVE TrimLeft(_)
TrimLeft(s) == IF s # <<>> /\ Head(s) = " " THEN TrimLeft(Tail(s)) ELSE s
RECURSIVE TrimRight(_)
TrimRight(s) ==
  IF s # <<>> /\ s[Len(s)] = " " THEN TrimRight(SubSeq(s, 1, Len(s) - 1)) ELSE s
TrimStart(s) == TrimLeft(s)
Trim(s) == TrimRight(TrimLeft(s))

\* String.prototype.split(','): the pieces between commas, "" for an empty one.
RECURSIVE SplitFrom(_, _)
SplitFrom(s, piece) ==
  IF s = <<>> THEN <<piece>>
  ELSE IF Head(s) = "," THEN <<piece>> \o SplitFrom(Tail(s), <<>>)
  ELSE SplitFrom(Tail(s), Append(piece, Head(s)))
Split(s) == SplitFrom(s, <<>>)

\* parseInt(digits, 10)
RECURSIVE ParseInt(_, _)
ParseInt(s, acc) ==
  IF s = <<>> THEN acc ELSE ParseInt(Tail(s), 10 * acc + DigitVal(Head(s)))

\* The longest run of digits at the head of s: (\d+), greedy.
RECURSIVE DigitRun(_)
DigitRun(s) ==
  IF s # <<>> /\ Head(s) \in Digits THEN <<Head(s)>> \o DigitRun(Tail(s)) ELSE <<>>

\* content.match(/<marker>(.*?)(?:\n|$)/): <<capture>> for the leftmost marker,
\* the capture being the rest of its line; <<>> when there is no match.
LineMatch(content, marker) ==
  LET hits == {j \in DOMAIN content : marker \in Range(content[j])}
  IN IF hits = {} THEN <<>>
     ELSE LET j == CHOOSE x \in hits : \A y \in hits : x <= y
              i == CHOOSE x \in DOMAIN content[j] :
                     /\ content[j][x] = marker
                     /\ \A y \in 1..(x - 1) : content[j][y] # marker
          IN <<SubSeq(content[j], i + 1, Len(content[j]))>>

\* content.match(/Tokens used: (\d+)/): the leftmost marker that a digit follows.
TokensMatch(content) ==
  LET hit(j, i) == /\ content[j][i] = "Tokens used: "
                   /\ i < Len(content[j])
                   /\ content[j][i + 1] \in Digits
      lines == {j \in DOMAIN content : \E i \in DOMAIN content[j] : hit(j, i)}
  IN IF lines = {} THEN <<>>
     ELSE LET j == CHOOSE x \in lines : \A y \in lines : x <= y
              i == CHOOSE x \in DOMAIN content[j] :
                     hit(j, x) /\ \A y \in 1..(x - 1) : ~hit(j, y)
          IN <<DigitRun(SubSeq(content[j], i + 1, Len(content[j])))>>

MapTrim(pieces) == [i \in DOMAIN pieces |-> Trim(pieces[i])]

parseResponse(content) ==
  LET descriptionMatch == LineMatch(content, "Description: ")
      keywordsMatch == LineMatch(content, "Keywords: ")
      tokensUsedMatch == TokensMatch(content)
  IN [description |-> IF descriptionMatch # <<>> THEN Trim(descriptionMatch[1]) ELSE <<>>,
      keywords |-> IF keywordsMatch # <<>> THEN MapTrim(Split(keywordsMatch[1])) ELSE <<>>,
      tokensUsed |-> IF tokensUsedMatch # <<>> THEN ParseInt(tokensUsedMatch[1], 0) ELSE 0]

\* The response texts under test: every string of at most MaxTextLen of the
\* tokens below, cut into lines at the line breaks.
LineBreak == "LF"
TextTokens ==
  {"Description: ", "Keywords: ", "Tokens used: ", "a", " ", ",", "4", "2",
   LineBreak}
Strings == UNION {[1..n -> TextTokens] : n \in 0..MaxTextLen}
RECURSIVE LinesFrom(_, _)
LinesFrom(s, line) ==
  IF s = <<>> THEN <<line>>
  ELSE IF Head(s) = LineBreak THEN <<line>> \o LinesFrom(Tail(s), <<>>)
  ELSE LinesFrom(Tail(s), Append(line, Head(s)))
Lines(s) == LinesFrom(s, <<>>)
Texts == {Lines(s) : s \in Strings}

\* ------------------------------------------------------------ the service
\* What the completion service may answer with: a completion whose content is
\* the text below (a description and keywords as the prompt asks for, and no
\* token count), a body without choices, or an error.
DescribedText ==
  << <<"Description: ", "A", " ", "cat.">>,
     <<"Keywords: ", "cat", ",", " ", "pet">> >>
Contents == {DescribedText}
Completion(c) == [choices |-> <<[message |-> [content |-> c]]>>]
NoChoices == [choices |-> <<>>]
ServiceResponses == {Completion(c) : c \in Contents} \cup {NoChoices}
ServiceErrors == {"network error", "rate limit"}

\* ------------------------------------------------------------ state
VARIABLES
  variant,     \* which client controller is mounted: "tsx" (Home) or "jsx" (Index)
  images,      \* useState images: sequence of [file, preview]
  results,     \* useState results: sequence of result entries
  isLoading,   \* useState isLoading
  fileInput,   \* the file input's displayed value: "" or "files"
  urlCount,    \* blob URLs created so far by URL.createObjectURL
  blobUrls,    \* the browser's blob URL store: created and not revoked
  runs,        \* the invocations of generateDescriptionAndKeywords, by slot
  reqs,        \* the requests to /api/generate, by origin
  last,        \* observation of the last task: what ran, on what, its toast,
               \* and for the task that ends a run (done) the number of
               \* images of the run and the outcome of each
  sinceClear   \* history: Clear all ran and no Select images or Generate since

vars == <<variant, images, results, isLoading, fileInput, urlCount, blobUrls,
          runs, reqs, last, sinceClear>>

NoToast == "none"
TooManyToast == "You can only upload a maximum of 5 images."
FailedToast == "Failed to process image. Please try again."

IdleRun ==
  [pc |-> "idle", imgs |-> <<>>, k |-> 0, newResults |-> <<>>,
   outcomes |-> <<>>, response |-> <<>>]
\* A request to the route: its method and body, what the handler passed to the
\* service (forwarded), what the service returned or threw, and the responses
\* the handler sent.
NoReq ==
  [pc |-> "none", method |-> "", body |-> <<>>, forwarded |-> <<>>,
   returned |-> <<>>, thrown |-> <<>>, sent |-> <<>>]
NewReq(method, body) ==
  [NoReq EXCEPT !.pc = "sent", !.method = method, !.body = <<body>>]

Observed(op, arg, toast, done, outcomes) ==
  [op |-> op, arg |-> arg, toast |-> toast, done |-> done, outcomes |-> outcomes]

Init ==
  /\ variant \in Variants
  /\ images = <<>>
  /\ results = <<>>
  /\ isLoading = FALSE
  /\ fileInput = ""
  /\ urlCount = 0
  /\ blobUrls = {}
  /\ runs = [r \in RunIds |-> IdleRun]
  /\ reqs = [o \in Origins |-> NoReq]
  /\ last = Observed("init", 0, NoToast, FALSE, <<>>)
  /\ sinceClear = FALSE

\* ------------------------------------------------------------ Select images
\* The n files of a change event are File objects made for that event; the
\* file of an accepted entry is named by the number of the blob URL created
\* for it.
newImages(n) == [i \in 1..n |-> [file |-> urlCount + i, preview |-> urlCount + i]]

\* The limit check: files.length > MAX_IMAGES (Home),
\* images.length + files.length > MAX_IMAGES (Index).  (The variant before it
\* is Home's check in both.)
TooManyFilesOnly(n) == n > MAX_IMAGES
TooMany(n) ==
  IF variant = "tsx" THEN n > MAX_IMAGES ELSE Len(images) + n > MAX_IMAGES

\* The early return after the toast: no state is set.  (The variant before it
\* clears the lists before the check.)
RejectSelectionAfterClearing ==
  /\ images' = <<>>
  /\ results' = <<>>
  /\ UNCHANGED <<urlCount, blobUrls>>
RejectSelection == UNCHANGED <<images, results, urlCount, blobUrls>>

AcceptSelection(n) ==
  /\ urlCount + n <= MaxUrls
  /\ urlCount' = urlCount + n
  /\ blobUrls' = blobUrls \cup {urlCount + i : i \in 1..n}
  /\ IF variant = "tsx"
       THEN /\ images' = newImages(n)
            /\ results' = <<>>
       ELSE /\ images' = images \o newImages(n)
            /\ UNCHANGED results

handleImageUpload(n) ==
  /\ IF TooMany(n)
       THEN /\ RejectSelection
            /\ last' = Observed("select", n, TooManyToast, FALSE, <<>>)
       ELSE /\ AcceptSelection(n)
            /\ last' = Observed("select", n, NoToast, FALSE, <<>>)
  /\ fileInput' = IF n = 0 THEN "" ELSE "files"
  /\ sinceClear' = FALSE
  /\ UNCHANGED <<variant, isLoading, runs, reqs>>

\* ------------------------------------------------------------ Remove image
\* (The variant before it filters the image list alone.)
removeImageOnly(index) ==
  /\ index \in DOMAIN images
  /\ images' = FilterOut(images, index)
  /\ last' = Observed("remove", index, NoToast, FALSE, <<>>)
  /\ UNCHANGED <<variant, results, isLoading, fileInput, urlCount, blobUrls, runs,
                 reqs, sinceClear>>
removeImage(index) ==
  /\ index \in DOMAIN images
  /\ images' = FilterOut(images, index)
  /\ results' = FilterOut(results, index)
  /\ last' = Observed("remove", index, NoToast, FALSE, <<>>)
  /\ UNCHANGED <<variant, isLoading, fileInput, urlCount, blobUrls, runs, reqs,
                 sinceClear>>

\* ------------------------------------------------------------ Clear all
clearAll ==
  /\ images' = <<>>
  /\ results' = <<>>
  /\ fileInput' = IF variant = "tsx" THEN "" ELSE fileInput
  /\ last' = Observed("clear", 0, NoToast, FALSE, <<>>)
  /\ sinceClear' = TRUE
  /\ UNCHANGED <<variant, isLoading, urlCount, blobUrls, runs, reqs>>

\* ------------------------------------------------------------ Generate
\* The Generate button's disabled attribute.  (The variant before it leaves
\* out isLoading.)
GenerateDisabledWhenEmpty == Len(images) = 0
GenerateDisabled == Len(images) = 0 \/ isLoading

\* reader.readAsDataURL(file): the data URI of the file's bytes.
convertToBase64(file) == <<"data:image;base64", file>>

\* The completion request built around the data URI.
Payload(base64Image) ==
  [model |-> "gpt-4-vision-preview", image_url |-> base64Image, max_tokens |-> 300]

\* A result entry; src is history, not program data: the preview handle of the
\* image entry whose round trip produced the entry.
Result(image, parsed) ==
  [description |-> parsed.description, keywords |-> parsed.keywords,
   tokensUsed |-> parsed.tokensUsed, src |-> image.preview]

\* Index.jsx: the placeholder written for the image at position index.
Placeholder(image, index) ==
  [description |-> <<"Placeholder description for image", index>>,
   keywords |-> <<"keyword1", "keyword40">>, src |-> image.preview]

\* The least free slot holds a new invocation.
FreeSlot(r) ==
  /\ runs[r].pc = "idle"
  /\ \A q \in RunIds : q < r => runs[q].pc # "idle"

\* The click: setIsLoading(true), newResults = [], and the loop up to its first
\* await (Home); the whole function, which awaits nothing (Index).
generateDescriptionAndKeywords(r) ==
  /\ ~GenerateDisabled
  /\ FreeSlot(r)
  /\ variant = "tsx" => Len(images) <= MaxBatch
  /\ IF variant = "tsx"
       THEN /\ isLoading' = TRUE
            /\ runs' = [runs EXCEPT ![r] =
                 [pc |-> "convert", imgs |-> images, k |-> 1, newResults |-> <<>>,
                  outcomes |-> <<>>, response |-> <<>>]]
            /\ UNCHANGED results
       ELSE /\ results' = [i \in DOMAIN images |-> Placeholder(images[i], i)]
            /\ isLoading' = FALSE
            /\ UNCHANGED runs
  /\ last' = Observed("generate", Len(images), NoToast, FALSE, <<>>)
  /\ sinceClear' = FALSE
  /\ UNCHANGED <<variant, images, fileInput, urlCount, blobUrls, reqs>>

\* The end of one loop iteration: the next image's conversion starts, or, after
\* the last image, setResults(newResults) and setIsLoading(false).
Continue(r, op, toast, newResults, outcomes) ==
  IF runs[r].k < Len(runs[r].imgs)
    THEN /\ runs' = [runs EXCEPT ![r] =
              [pc |-> "convert", imgs |-> runs[r].imgs, k |-> runs[r].k + 1,
               newResults |-> newResults, outcomes |-> outcomes, response |-> <<>>]]
         /\ last' = Observed(op, runs[r].k, toast, FALSE, <<>>)
         /\ UNCHANGED <<results, isLoading>>
    ELSE /\ runs' = [runs EXCEPT ![r] = IdleRun]
         /\ results' = newResults
         /\ isLoading' = FALSE
         /\ last' = Observed(op, Len(runs[r].imgs), toast, TRUE, outcomes)

\* The catch block: one toast, and the loop goes on.  (The two variants before
\* it leave the loop instead: by a break, by an exception nothing catches.)
OnFailureBreak(r, op) ==
  /\ runs' = [runs EXCEPT ![r] = IdleRun]
  /\ results' = runs[r].newResults
  /\ isLoading' = FALSE
  /\ last' = Observed(op, Len(runs[r].imgs), FailedToast, TRUE,
                       Append(runs[r].outcomes, "failed"))
OnFailureUncaught(r, op) ==
  /\ runs' = [runs EXCEPT ![r] = IdleRun]
  /\ last' = Observed(op, runs[r].k, NoToast, FALSE, <<>>)
  /\ UNCHANGED <<results, isLoading>>
OnFailure(r, op) ==
  Continue(r, op, FailedToast, runs[r].newResults, Append(runs[r].outcomes, "failed"))

\* newResults.push(...) at the end of the try block.
OnSuccess(r, op, result) ==
  Continue(r, op, NoToast, Append(runs[r].newResults, result),
           Append(runs[r].outcomes, "ok"))

Client == <<variant, images, fileInput, urlCount, blobUrls, sinceClear>>

\* await convertToBase64 resolves: the payload is built and fetch is called.
ConvertResolves(r) ==
  /\ runs[r].pc = "convert"
  /\ reqs[r].pc = "none"
  /\ LET image == runs[r].imgs[runs[r].k]
     IN reqs' = [reqs EXCEPT ![r] =
          NewReq("POST", Payload(convertToBase64(image.file)))]
  /\ runs' = [runs EXCEPT ![r].pc = "fetch"]
  /\ last' = Observed("converted", runs[r].k, NoToast, FALSE, <<>>)
  /\ UNCHANGED <<results, isLoading>>
  /\ UNCHANGED Client

\* reader.onerror: the conversion rejects.
ConvertRejects(r) ==
  /\ runs[r].pc = "convert"
  /\ OnFailure(r, "convert failed")
  /\ UNCHANGED reqs
  /\ UNCHANGED Client

\* fetch rejects: the request never reaches the route, or its response is lost.
FetchRejects(r) ==
  /\ runs[r].pc = "fetch"
  /\ reqs[r].pc \in {"sent", "done"}
  /\ reqs' = [reqs EXCEPT ![r] = NoReq]
  /\ OnFailure(r, "fetch failed")
  /\ UNCHANGED Client

\* response.ok
Ok(response) == response.status \in 200..299

\* fetch resolves with the route's response: throw when !response.ok, else
\* await response.json().
FetchResolves(r) ==
  /\ runs[r].pc = "fetch"
  /\ reqs[r].pc = "done"
  /\ reqs' = [reqs EXCEPT ![r] = NoReq]
  /\ LET response == reqs[r].sent[1]
     IN IF ~Ok(response)
          THEN OnFailure(r, "not ok")
          ELSE /\ runs' = [runs EXCEPT ![r].pc = "json", ![r].response = <<response>>]
               /\ last' = Observed("fetched", runs[r].k, NoToast, FALSE, <<>>)
               /\ UNCHANGED <<results, isLoading>>
  /\ UNCHANGED Client

\* parseResponse on each text the service may answer with and on each text
\* under test, evaluated once.
Parsed == [content \in Contents \cup Texts |-> parseResponse(content)]

\* response.json() resolves with data: data.choices[0].message.content throws
\* when there is no choice; else the content is parsed and the result pushed.
JsonResolves(r) ==
  /\ runs[r].pc = "json"
  /\ LET data == runs[r].response[1].json
         image == runs[r].imgs[runs[r].k]
     IN IF data.choices = <<>>
          THEN OnFailure(r, "no content")
          ELSE OnSuccess(r, "parsed",
                 Result(image, Parsed[data.choices[1].message.content]))
  /\ UNCHANGED reqs
  /\ UNCHANGED Client

\* response.json() rejects: the body cannot be read or is not JSON.
JsonRejects(r) ==
  /\ runs[r].pc = "json"
  /\ OnFailure(r, "json failed")
  /\ UNCHANGED reqs
  /\ UNCHANGED Client

\* ------------------------------------------------------------ the proxy
Methods == {"GET", "POST", "PUT"}
\* What a client other than the page may send as the body.
ExternalBodies == {Payload(<<"data:image;base64", 0>>), Payload(<<>>)}

MethodNotAllowed == [status |-> 405, json |-> [error |-> "Method not allowed"]]
ProcessingError == [status |-> 500, json |-> [error |-> "Error processing your request"]]

\* res.status(200).json(response)
SuccessResponse(response) == [status |-> 200, json |-> response]

\* The catch block's response: the fixed message, whatever was thrown.  (The
\* variant before it sends the error's text.)
ErrorResponseWithDetail(error) == [status |-> 500, json |-> [error |-> error]]
ErrorResponse(error) == ProcessingError

\* The argument of openai.chat.completions.create: req.body.
Forwarded(body) == body

Server == <<variant, images, results, isLoading, fileInput, urlCount, blobUrls,
            runs, sinceClear>>

\* A client other than the page sends a request to the route.
ExternalRequest(o, method, body) ==
  /\ reqs[o].pc = "none"
  /\ reqs' = [reqs EXCEPT ![o] = NewReq(method, body)]
  /\ last' = Observed("external request", o, NoToast, FALSE, <<>>)
  /\ UNCHANGED Server

\* That client takes the response.
ExternalResponse(o) ==
  /\ reqs[o].pc = "done"
  /\ reqs' = [reqs EXCEPT ![o] = NoReq]
  /\ last' = Observed("external response", o, NoToast, FALSE, <<>>)
  /\ UNCHANGED Server

\* handler, up to its await: 405 for a method other than POST, else the
\* service is called with the request body.
handler(o) ==
  /\ reqs[o].pc = "sent"
  /\ IF reqs[o].method # "POST"
       THEN reqs' = [reqs EXCEPT ![o].pc = "done",
                                 ![o].sent = Append(@, MethodNotAllowed)]
       ELSE reqs' = [reqs EXCEPT ![o].pc = "calling",
                                 ![o].forwarded = <<Forwarded(reqs[o].body[1])>>]
  /\ last' = Observed("handler", o, NoToast, FALSE, <<>>)
  /\ UNCHANGED Server

\* The service call resolves: status 200 with the service's response.
ServiceResolves(o, response) ==
  /\ reqs[o].pc = "calling"
  /\ reqs' = [reqs EXCEPT ![o].pc = "done",
                          ![o].returned = <<response>>,
                          ![o].sent = Append(@, SuccessResponse(response))]
  /\ last' = Observed("service resolved", o, NoToast, FALSE, <<>>)
  /\ UNCHANGED Server

\* The service call throws: the error is logged, status 500 is sent.
ServiceRejects(o, error) ==
  /\ reqs[o].pc = "calling"
  /\ reqs' = [reqs EXCEPT ![o].pc = "done",
                          ![o].thrown = <<error>>,
                          ![o].sent = Append(@, ErrorResponse(error))]
  /\ last' = Observed("service rejected", o, NoToast, FALSE, <<>>)
  /\ UNCHANGED Server

\* ------------------------------------------------------------ specification
SelectImages == \E n \in 0..(MAX_IMAGES + 1) : handleImageUpload(n)
RemoveImage == \E index \in 1..MAX_IMAGES : removeImage(index)
ClearAll == clearAll
Generate == \E r \in RunIds : generateDescriptionAndKeywords(r)
ConvertSettles == \E r \in RunIds : ConvertResolves(r) \/ ConvertRejects(r)
FetchSettles == \E r \in RunIds : FetchResolves(r) \/ FetchRejects(r)
JsonSettles == \E r \in RunIds : JsonResolves(r) \/ JsonRejects(r)
External ==
  \E o \in ExternalIds :
    \/ \E method \in Methods, body \in ExternalBodies : ExternalRequest(o, method, body)
    \/ ExternalResponse(o)
Proxy == \E o \in Origins : handler(o)
Service ==
  \E o \in Origins :
    \/ \E response \in ServiceResponses : ServiceResolves(o, response)
    \/ \E error \in ServiceErrors : ServiceRejects(o, error)

\* The page and the route serving it.
Next ==
  \/ SelectImages
  \/ RemoveImage
  \/ ClearAll
  \/ Generate
  \/ ConvertSettles
  \/ FetchSettles
  \/ JsonSettles
  \/ Proxy
  \/ Service

Spec == Init /\ [][Next]_vars

\* Every file read, every request to the route, every service call and every
\* body read settles.
Settles == ConvertSettles \/ FetchSettles \/ JsonSettles \/ Proxy \/ Service
FairSpec == Spec /\ WF_vars(Settles)

\* The route serving any client, with any method.
ProxyNext ==
  \/ External
  \/ Proxy
  \/ Service

ProxySpec == Init /\ [][ProxyNext]_vars

\* One image, one run, every await resolving, the service answering with any
\* of the texts under test: parseResponse applied to each of them.
ParseInit == Init /\ variant = "tsx"
ParseNext ==
  \/ urlCount = 0 /\ handleImageUpload(1)
  \/ results = <<>> /\ Generate
  \/ \E r \in RunIds : ConvertResolves(r)
  \/ Proxy
  \/ \E o \in {o \in Origins : reqs[o].pc = "calling"}, content \in Texts :
       ServiceResolves(o, Completion(content))
  \/ \E r \in RunIds : FetchResolves(r)
  \/ \E r \in RunIds : JsonResolves(r)

ParseSpec == ParseInit /\ [][ParseNext]_vars

\* ------------------------------------------------------------ properties
ImagePreviews == {images[i].preview : i \in DOMAIN images}
ActiveRuns == {r \in RunIds : runs[r].pc # "idle"}
NumOk(outcomes) == Cardinality({i \in DOMAIN outcomes : outcomes[i] = "ok"})
FailureOps == {"convert failed", "fetch failed", "not ok", "no content", "json failed"}

\* The page's pending operations, by the run that awaits them.
Converting == {r \in RunIds : runs[r].pc = "convert"}
Requesting == {r \in RunIds : reqs[r].pc # "none"}
Reading == {r \in RunIds : runs[r].pc = "json"}

\* t is s without its entry at index i, the others in their order.
RemovedAt(s, t, i) ==
  /\ Len(t) = Len(s) - 1
  /\ \A j \in 1..Len(t) : t[j] = IF j < i THEN s[j] ELSE s[j + 1]

\* C1: every result entry has an image entry at its index, and is the result
\* of the round trip made for that image entry.
C1_ResultsAligned ==
  \A k \in DOMAIN results :
    /\ k \in DOMAIN images
    /\ results[k].src = images[k].preview

\* C2: a selection of more than MAX_IMAGES files leaves the image list and the
\* result list as they were and shows the error notification, in both
\* controllers and whatever else is going on.
C2_OversizeSelectionRejected ==
  [][(last'.op = "select" /\ last'.arg > MAX_IMAGES)
       => (images' = images /\ results' = results /\ last'.toast = TooManyToast)]_vars

\* C2 witness: more than MAX_IMAGES files were selected while a run was in
\* progress and both lists held entries.
C2_Witness ==
  /\ last.op = "select"
  /\ last.arg > MAX_IMAGES
  /\ images # <<>>
  /\ results # <<>>
  /\ ActiveRuns # {}

\* C3: the image list never holds more than MAX_IMAGES entries.
C3_AtMostMaxImages == Len(images) <= MAX_IMAGES

\* C3 witness: the appending controller holds MAX_IMAGES images and has just
\* rejected a selection that alone was within the limit.
C3_Witness ==
  /\ variant = "jsx"
  /\ Len(images) = MAX_IMAGES
  /\ last.op = "select"
  /\ last.arg \in 1..MAX_IMAGES
  /\ last.toast = TooManyToast

\* C4: Remove image at index i takes out the image entry at i and, when there
\* is one, the result entry at i; all other entries keep their order and the
\* loading flag its value.
C4_RemoveExactlyIndex ==
  [][last'.op = "remove" =>
       LET i == last'.arg
       IN /\ RemovedAt(images, images', i)
          /\ IF i \in DOMAIN results
               THEN RemovedAt(results, results', i)
               ELSE results' = results
          /\ isLoading' = isLoading]_vars

\* C4 witness: the second of at least three images, each with a result, was
\* removed.
C4_Witness ==
  /\ last.op = "remove"
  /\ last.arg = 2
  /\ Len(images) >= 2
  /\ Len(results) >= 2

\* C5: a failure on one image shows one notification and the run goes on: a
\* run in progress has settled every image before the current one and holds
\* one result entry per success, each made for the image that succeeded; the
\* task that ends a run has settled every image of the run and has written as
\* many result entries as images succeeded.
C5_FailureDoesNotAbort ==
  /\ last.op \in FailureOps => last.toast = FailedToast
  /\ \A r \in ActiveRuns :
       /\ Len(runs[r].outcomes) = runs[r].k - 1
       /\ Len(runs[r].newResults) = NumOk(runs[r].outcomes)
       /\ \A j \in DOMAIN runs[r].outcomes :
            runs[r].outcomes[j] = "ok" =>
              \E i \in DOMAIN runs[r].newResults :
                runs[r].newResults[i].src = runs[r].imgs[j].preview
  /\ last.done =>
       /\ Len(last.outcomes) = last.arg
       /\ Len(results) = NumOk(last.outcomes)

\* C5 witness: a run of two images ended, the first failed, the second
\* succeeded, and one result entry was written.
C5_Witness ==
  /\ last.done
  /\ last.outcomes = <<"failed", "ok">>
  /\ Len(results) = 1
  /\ last.toast = NoToast

\* C6: in Home, from Clear all until the next Select images or Generate, both
\* lists and the file input's value are empty.
C6_StaysCleared ==
  (variant = "tsx" /\ sinceClear) =>
    (images = <<>> /\ results = <<>> /\ fileInput = "")

\* C7: a request gets one response, fixed by its method and by what the service
\* call did: 405 and 'Method not allowed' for a method other than POST, with no
\* service call; for POST the body goes to the service as it came, and the
\* response is 200 with what the service returned, or 500 with the one fixed
\* message whatever the service threw.
C7_OneResponsePerRequest ==
  \A o \in Origins :
    LET q == reqs[o]
    IN /\ Len(q.sent) <= 1
       /\ q.pc \in {"sent", "calling"} => q.sent = <<>>
       /\ q.pc = "done" =>
            /\ Len(q.sent) = 1
            /\ q.method # "POST" =>
                 /\ q.sent[1] = [status |-> 405, json |-> [error |-> "Method not allowed"]]
                 /\ q.forwarded = <<>>
            /\ q.method = "POST" =>
                 /\ q.forwarded = q.body
                 /\ Len(q.returned) + Len(q.thrown) = 1
                 /\ q.returned # <<>> =>
                      q.sent[1] = [status |-> 200, json |-> q.returned[1]]
                 /\ q.thrown # <<>> =>
                      q.sent[1] = [status |-> 500,
                                   json |-> [error |-> "Error processing your request"]]

\* C7 witness: two POST requests whose service calls threw different errors
\* have both been answered.
C7_Witness ==
  \E o1, o2 \in Origins :
    /\ reqs[o1].pc = "done" /\ reqs[o2].pc = "done"
    /\ reqs[o1].thrown # <<>> /\ reqs[o2].thrown # <<>>
    /\ reqs[o1].thrown # reqs[o2].thrown

\* C8: the blob URLs created and not revoked are those of the entries in the
\* image list.
C8_PreviewsReleased == blobUrls = ImagePreviews

\* C9: a run that sets the loading flag sets it back to false.
C9_LoadingEnds == isLoading ~> ~isLoading

\* C9 witness: a run of two images, both of which failed, has ended and the
\* loading flag is false.
C9_Witness ==
  /\ last.done
  /\ last.outcomes = <<"failed", "failed">>
  /\ ~isLoading

\* C10: at most one file conversion, request to the route or body read of the
\* page is pending, and only while the loading flag is true.
C10_OneAtATime ==
  /\ Cardinality(Converting) + Cardinality(Requesting) + Cardinality(Reading) <= 1
  /\ Cardinality(ActiveRuns) <= 1
  /\ ActiveRuns # {} => isLoading

\* C10 witness: the request for the second image of a run is with the service,
\* the first image settled.
C10_Witness ==
  \E r \in RunIds :
    /\ runs[r].k = 2
    /\ Len(runs[r].outcomes) = 1
    /\ reqs[r].pc = "calling"

\* What parseResponse is to return, said by positions in the text.
\* The places <<line, token>> at which marker stands.
MarkerHits(content, marker) ==
  UNION {{<<j, i>> : i \in {x \in DOMAIN content[j] : content[j][x] = marker}} :
           j \in DOMAIN content}
\* The places at which "Tokens used: " stands with a digit behind it.
DigitHits(content) ==
  {p \in MarkerHits(content, "Tokens used: ") :
     /\ p[2] < Len(content[p[1]])
     /\ content[p[1]][p[2] + 1] \in Digits}
Earliest(hits, p) ==
  /\ p \in hits
  /\ \A q \in hits : q[1] > p[1] \/ (q[1] = p[1] /\ q[2] >= p[2])
Blank(line, from, to) == \A n \in from..to : line[n] = " "
\* t is line[from..to] without the blanks at its two ends.
IsTrimOf(t, line, from, to) ==
  \/ Blank(line, from, to) /\ t = <<>>
  \/ \E lo \in from..to, hi \in from..to :
       /\ lo <= hi
       /\ line[lo] # " " /\ line[hi] # " "
       /\ Blank(line, from, lo - 1) /\ Blank(line, hi + 1, to)
       /\ Len(t) = hi - lo + 1
       /\ \A n \in 1..Len(t) : t[n] = line[lo + n - 1]
\* The n-th smallest member of a set of positions.
Nth(positions, n) ==
  CHOOSE x \in positions : Cardinality({y \in positions : y <= x}) = n
RECURSIVE Decimal(_, _, _)
Decimal(line, from, to) ==
  IF to < from THEN 0 ELSE DigitVal(line[to]) + 10 * Decimal(line, from, to - 1)

DescriptionOf(content, description) ==
  LET hits == MarkerHits(content, "Description: ")
  IN IF hits = {} THEN description = <<>>
     ELSE \E p \in hits :
            /\ Earliest(hits, p)
            /\ IsTrimOf(description, content[p[1]], p[2] + 1, Len(content[p[1]]))

KeywordsOf(content, keywords) ==
  LET hits == MarkerHits(content, "Keywords: ")
  IN IF hits = {} THEN keywords = <<>>
     ELSE \E p \in hits :
            /\ Earliest(hits, p)
            /\ LET line == content[p[1]]
                   commas == {n \in (p[2] + 1)..Len(line) : line[n] = ","}
               IN /\ Len(keywords) = Cardinality(commas) + 1
                  /\ \A n \in 1..Len(keywords) :
                       IsTrimOf(keywords[n], line,
                         (IF n = 1 THEN p[2] ELSE Nth(commas, n - 1)) + 1,
                         (IF n = Len(keywords) THEN Len(line) + 1
                                               ELSE Nth(commas, n)) - 1)

TokensUsedOf(content, tokensUsed) ==
  LET hits == DigitHits(content)
  IN IF hits = {} THEN tokensUsed = 0
     ELSE \E p \in hits :
            /\ Earliest(hits, p)
            /\ LET line == content[p[1]]
               IN \E m \in 1..(Len(line) - p[2]) :
                    /\ \A n \in 1..m : line[p[2] + n] \in Digits
                    /\ p[2] + m = Len(line) \/ line[p[2] + m + 1] \notin Digits
                    /\ tokensUsed = Decimal(line, p[2] + 1, p[2] + m)

\* C11: parseResponse is total and takes each field by itself.  Whatever text
\* the completion carries, reading it ends in the step "parsed", never in the
\* catch block: no toast is raised and one entry more is written.  The entry's
\* description is the rest of the line after the first "Description: " with the
\* blanks at its ends removed, and empty without the marker; its keywords are
\* the pieces between the commas after the first "Keywords: ", each trimmed,
\* and the empty list without the marker; its tokensUsed is the number written
\* by the digits after the first "Tokens used: " that a digit follows, and 0
\* without one.
C11_ParseResponseTotal ==
  [][\A r \in RunIds :
       (/\ runs[r].pc = "json"
        /\ runs[r].response[1].json.choices # <<>>
        /\ runs'[r] # runs[r])
       => LET content == runs[r].response[1].json.choices[1].message.content
              written == IF last'.done THEN results' ELSE runs'[r].newResults
          IN /\ last'.op = "parsed"
             /\ last'.toast = NoToast
             /\ Len(written) = Len(runs[r].newResults) + 1
             /\ DescriptionOf(content, written[Len(written)].description)
             /\ KeywordsOf(content, written[Len(written)].keywords)
             /\ TokensUsedOf(content, written[Len(written)].tokensUsed)]_vars

\* C11 witness: a text with a description between blanks and neither of the
\* other two markers was parsed; no toast, and the entry is in the table with
\* the trimmed description, no keyword (a "Keywords: " marker always gives at
\* least one) and 0 tokens.
C11_Witness ==
  /\ last.op = "parsed"
  /\ last.toast = NoToast
  /\ Len(results) = 1
  /\ results[1].description = <<"a", " ", "4">>
  /\ results[1].keywords = <<>>
  /\ results[1].tokensUsed = 0

\* C12: the result list is never longer than the image list, so the table,
\* which reads images[index].preview for every result index, never reads past
\* the end of the image list.
C12_ResultsWithinImages == Len(results) <= Len(images)

====
